---- MODULE Spec2Model ----
(***************************************************************************)
(* TripPointsList (src/src/ui/trip-points-list.js): the day-grouped list   *)
(* of trip points, its single inline edit session and the save / delete    *)
(* requests the edit view sends to the data source.                        *)
(*                                                                         *)
(* Encoding.  A nullable reference is a sequence of length 0 (null) or 1.  *)
(* A DOM element is identified by its place in the container: <<i, j>> is  *)
(* the j-th item of the i-th child; <<>> is "no element" (the view is not  *)
(* rendered) and <<0, 0>> an element that has no parent.  Places are       *)
(* stable between two update() calls because views are only swapped with   *)
(* replaceChild.                                                           *)
(***************************************************************************)
EXTENDS Integers, Sequences, FiniteSets, TLC

\* ------------------------------------------------------------------ bounds
MaxPoints == 3      \* records held by the data source
MaxDate == 4        \* dateFrom ranges over 0..MaxDate (time units, see DayLen)
MaxTracked == 6     \* update() is not taken once _tripPoints would outgrow this
MaxRequests == 1    \* requests in flight
MaxEditPoints == 2  \* records loaded in the specification with edit sessions

\* time units per calendar day; date 0 is the epoch (new Date(0))
DayLen == 2

Ids == 1..MaxPoints
Dates == 0..MaxDate
\* the epoch day and the day after it
EditDates == {0, DayLen}

NoFn == "null"
SortFns == {"byDate", "byIdDesc", NoFn}
FilterFns == {NoFn, "future"}
NoMessage == ""
ErrorMessage == "Something went wrong. Check your connection or try again later"
LoadingMessage == "Loading route..."

NoElement == <<>>
Detached == <<0, 0>>

VARIABLES
  tripPointsData,   \* what getTripPoints() returns: <<>> (null) or <<array>>
  sortFunction,     \* this._sortFunction
  filterFunction,   \* this._filterFunction
  tripPointEdit,    \* this._tripPointEdit: <<>> (null) or <<edit view>>
  tripPoints,       \* this._tripPoints: sequence of read-only view handles
  message,          \* this._message
  element,          \* children of this._element, in document order
  requests,         \* updateTripPoint / deleteTripPoint promises not settled yet
  lastOp,           \* the handler that ran last
  threw             \* whether that handler ended with an exception

vars == <<tripPointsData, sortFunction, filterFunction, tripPointEdit, tripPoints,
          message, element, requests, lastOp, threw>>

\* ------------------------------------------------------------ date utilities
\* start of the calendar day a date falls on
DayOf(date) == date \div DayLen

\* calendar-day difference from date1 to date2
calcDaysDiff(date1, date2) == DayOf(date2) - DayOf(date1)

\* comparator of two dates: negative, zero or positive
compareDate(date1, date2) == date1 - date2

RECURSIVE MinDate(_, _, _)
MinDate(array, k, min) ==
  IF k > Len(array) THEN min
  ELSE MinDate(array, k + 1, IF array[k].dateFrom < min THEN array[k].dateFrom ELSE min)

\* earliest dateFrom over all records (only called on a non-empty array)
getTripStartDate(array) == MinDate(array, 1, array[1].dateFrom)

\* ------------------------------------------------------- sorting, filtering
\* the comparators a caller may install with the sortFunction setter
Compare(fn, point1, point2) ==
  IF fn = "byDate" THEN compareDate(point1.dateFrom, point2.dateFrom)
  ELSE point2.id - point1.id

\* the predicates a caller may install with the filterFunction setter
Passes(fn, point) ==
  point.dateFrom >= DayLen

RECURSIVE InsertSorted(_, _, _)
InsertSorted(fn, sorted, point) ==
  IF sorted = <<>> THEN <<point>>
  ELSE IF Compare(fn, sorted[Len(sorted)], point) > 0
       THEN Append(InsertSorted(fn, SubSeq(sorted, 1, Len(sorted) - 1), point),
                   sorted[Len(sorted)])
       ELSE Append(sorted, point)

RECURSIVE SortFrom(_, _, _, _)
SortFrom(fn, array, k, sorted) ==
  IF k > Len(array) THEN sorted
  ELSE SortFrom(fn, array, k + 1, InsertSorted(fn, sorted, array[k]))

\* Array.prototype.sort with a comparator: stable
ArraySort(fn, array) == SortFrom(fn, array, 1, <<>>)

_getData(source) == IF source = <<>> THEN <<>> ELSE source[1]

\* a filter function that is installed but never applied
_filterPointsNotApplied(fn, array) == array

_filterPoints(fn, array) ==
  IF fn # NoFn THEN SelectSeq(array, LAMBDA point : Passes(fn, point)) ELSE array

_sortPoints(fn, array) ==
  IF fn # NoFn THEN ArraySort(fn, array) ELSE array

getDisplayedPoints(source, filterFn, sortFn) ==
  _sortPoints(sortFn, _filterPoints(filterFn, _getData(source)))

\* the data source's array after getDisplayedPoints(): sort() works in place,
\* and with no filter function the array it sorts is the data source's own
SourceAfterDisplay(source, filterFn, sortFn) ==
  IF source # <<>> /\ filterFn = NoFn
  THEN <<_sortPoints(sortFn, source[1])>>
  ELSE source

\* ------------------------------------------------------------------ the DOM
\* <p class="trip-point-message">, with visually-hidden when the text is empty
_createMessage(text) ==
  [tag |-> "p", text |-> text, hidden |-> (text = NoMessage),
   number |-> 0, title |-> 0, items |-> <<>>]

\* the message node appended whatever the text, without the `if (this._message)` test
MessageNodesUnguarded(text) == <<_createMessage(text)>>

\* the nodes update() appends for the status message
MessageNodes(text) == IF text # NoMessage THEN <<_createMessage(text)>> ELSE <<>>

\* a clone of #trip-day-template: day number, title (the day of the date), no items
_createTripDayElement(date, tripStartDate) ==
  [tag |-> "day", text |-> "", hidden |-> FALSE,
   number |-> calcDaysDiff(tripStartDate, date) + 1, title |-> DayOf(date),
   items |-> <<>>]

\* the rendered node of a read-only view and of an edit view
TripPointItem(data) == [view |-> "TripPoint", data |-> data]
TripPointEditItem(data) == [view |-> "TripPointEdit", data |-> data]

\* appends the view's node to the items of the current (last created) day
_addTripPointElementToDayElement(days, item) ==
  [days EXCEPT ![Len(days)].items = Append(@, item)]

removeChilds(children) == <<>>

\* parent.replaceChild(new node, the node at place)
replaceChild(children, place, item) ==
  [children EXCEPT ![place[1]].items[place[2]] = item]

Attached(place) == place # NoElement /\ place # Detached

\* prevTripPointDate before the first record
InitialPrevDate == 0

\* whether update() opens a new day section before this record
NewDay(prevTripPointDate, date) == calcDaysDiff(prevTripPointDate, date) # 0

\* the loop of update() over the displayed records, from the k-th on
RECURSIVE RenderDays(_, _, _, _, _)
RenderDays(displayed, k, prevTripPointDate, tripStartDate, days) ==
  IF k > Len(displayed) THEN days
  ELSE LET date == displayed[k].dateFrom
           opened == IF NewDay(prevTripPointDate, date)
                     THEN Append(days, _createTripDayElement(date, tripStartDate))
                     ELSE days
       IN RenderDays(displayed, k + 1, date, tripStartDate,
                     _addTripPointElementToDayElement(opened, TripPointItem(displayed[k])))

\* dayElement is still null when the first record is appended
FirstAppendThrows(displayed) ==
  displayed # <<>> /\ ~NewDay(InitialPrevDate, displayed[1].dateFrom)

\* places of the items of days, in document order, the days following `before` children
RECURSIVE Places(_, _, _)
Places(days, i, before) ==
  IF i > Len(days) THEN <<>>
  ELSE [j \in 1..Len(days[i].items) |-> <<before + i, j>>] \o Places(days, i + 1, before)

\* ---------------------------------------------------------------- the views
\* new TripPoint(data), rendered at place
_createTripPoint(data, place) == [data |-> data, element |-> place]

\* new TripPointEdit({data, ...}): not rendered, not blocked, nothing unsaved
_createTripPointEdit(data) ==
  [data |-> data, element |-> NoElement, blocked |-> "none",
   unsaved |-> FALSE, shaken |-> FALSE]

\* Component.unrender(): the view gives up its element
unrender(view) == [view EXCEPT !.element = NoElement]

\* the methods of TripPointEdit the list calls
savingBlock(edit) == [edit EXCEPT !.blocked = "saving"]
deletingBlock(edit) == [edit EXCEPT !.blocked = "deleting"]
unblock(edit) == [edit EXCEPT !.blocked = "none"]
shake(edit) == [edit EXCEPT !.shaken = TRUE]
changesUnsaved(edit) == [edit EXCEPT !.unsaved = TRUE]

\* unrender() of every tracked read-only view; the list itself is kept
UnrenderTripPoints(handles) ==
  [k \in 1..Len(handles) |-> unrender(handles[k])]

\* the requests whose edit view stops being this._tripPointEdit
Discard(reqs) == {[r EXCEPT !.view = "discarded"] : r \in reqs}

\* Array.prototype.indexOf of the view rendered at place: 0-based, -1 when absent
IndexOfView(handles, place) ==
  IF \E k \in 1..Len(handles) : handles[k].element = place
  THEN (CHOOSE k \in 1..Len(handles) : handles[k].element = place) - 1
  ELSE -1

\* Array.prototype.find by record id: 1-based position of the first match, 0 when none
FindById(handles, id) ==
  IF \E k \in 1..Len(handles) : handles[k].data.id = id
  THEN CHOOSE k \in 1..Len(handles) :
         /\ handles[k].data.id = id
         /\ \A m \in 1..(k - 1) : handles[m].data.id # id
  ELSE 0

\* Array.prototype.splice(start, 1): a negative start counts from the end
SpliceOne(array, start) ==
  LET from == IF start < 0
              THEN (IF Len(array) + start < 0 THEN 0 ELSE Len(array) + start)
              ELSE start
  IN IF from >= Len(array) THEN array
     ELSE SubSeq(array, 1, from) \o SubSeq(array, from + 2, Len(array))

\* ------------------------------------------------------- handlers of a view
\* the places of the rendered views of one kind
PlacesOfView(kind) ==
  {place \in (1..Len(element)) \X (1..MaxPoints) :
     /\ place[2] <= Len(element[place[1]].items)
     /\ element[place[1]].items[place[2]].view = kind}

ItemAt(place) == element[place[1]].items[place[2]]

\* tripPointEdit.element.parentElement fails when the edit view is not in the list
CancelThrows == tripPointEdit # <<>> /\ ~Attached(tripPointEdit[1].element)

\* onCancel without its replaceChild call: the edit view stays in the container
onCancelElementKeepingEdit(children, edit) == children

\* onCancel: a fresh read-only view of the original data takes the edit view's place;
\* the new view is not pushed to this._tripPoints
onCancelElement(children, edit) ==
  replaceChild(children, edit.element, TripPointItem(edit.data))

\* TripPointEdit.cancelEdit(): the edit view calls its onCancel callback
cancelEdit(children, edit) == onCancelElement(children, edit)

\* an edit request that does not cancel the edit session already open
ElementWithoutCancelEdit == element

\* the container and the requests once `if (this._tripPointEdit) cancelEdit()` has run
ElementAfterCancelEdit ==
  IF tripPointEdit # <<>> THEN cancelEdit(element, tripPointEdit[1]) ELSE element

RequestsAfterCancelEdit ==
  IF tripPointEdit # <<>> THEN Discard(requests) ELSE requests

\* the catch handler of updateTripPoint without its unblock() call
onSubmitRejectedStillBlocked(edit) == changesUnsaved(shake(edit))

\* the catch handler of updateTripPoint: shake, changesUnsaved, unblock
onSubmitRejected(edit) == unblock(changesUnsaved(shake(edit)))

\* the catch handler of deleteTripPoint without its unblock() call
onDeleteRejectedStillBlocked(edit) == changesUnsaved(edit)

\* the catch handler of deleteTripPoint with the shake() of the submit handler
onDeleteRejectedShaking(edit) == unblock(changesUnsaved(shake(edit)))

\* the catch handler of deleteTripPoint: changesUnsaved, unblock
onDeleteRejected(edit) == unblock(changesUnsaved(edit))

\* ----------------------------------------------------------------- update()
\* the trip start date taken over the displayed records only
TripStartDateOfDisplayed(source, displayed) == getTripStartDate(displayed)

\* the trip start date update() numbers the days from: over every record of the source
TripStartDate(source, displayed) == getTripStartDate(_getData(source))

\* _unrenderContent without its removeChilds call
ContentKept(children) == children

\* _unrenderContent: what is left of the container's children
ContentUnrendered(children) == removeChilds(children)

update(op, sortFn, filterFn, text) ==
  LET displayed == getDisplayedPoints(tripPointsData, filterFn, sortFn)
      unrendered == UnrenderTripPoints(tripPoints)
      cleared == ContentUnrendered(element) \o MessageNodes(text)
      source == SourceAfterDisplay(tripPointsData, filterFn, sortFn)
  IN /\ Len(tripPoints) + Len(displayed) <= MaxTracked
     /\ sortFunction' = sortFn
     /\ filterFunction' = filterFn
     /\ message' = text
     /\ tripPointsData' = source
     /\ tripPointEdit' = <<>>
     /\ requests' = RequestsAfterCancelEdit
     /\ lastOp' = op
     /\ IF displayed = <<>>
        THEN /\ tripPoints' = unrendered
             /\ element' = cleared
             /\ threw' = FALSE
        ELSE IF FirstAppendThrows(displayed)
        THEN \* the first view is created, pushed and rendered, then the append fails
             /\ tripPoints' = Append(unrendered, _createTripPoint(displayed[1], Detached))
             /\ element' = cleared
             /\ threw' = TRUE
        ELSE LET days == RenderDays(displayed, 1, InitialPrevDate,
                                    TripStartDate(source, displayed), <<>>)
                 places == Places(days, 1, Len(cleared))
             IN /\ tripPoints' = unrendered \o
                     [k \in 1..Len(displayed) |-> _createTripPoint(displayed[k], places[k])]
                /\ element' = cleared \o days
                /\ threw' = FALSE

Update == update("update", sortFunction, filterFunction, message)

SetSortFunction == \E fn \in SortFns : update("sortFunction", fn, filterFunction, message)

SetFilterFunction == \E fn \in FilterFns : update("filterFunction", sortFunction, fn, message)

ShowErrorMessage == update("showErrorMessage", sortFunction, filterFunction, ErrorMessage)

ShowLoadingMessage == update("showLoadingMessage", sortFunction, filterFunction, LoadingMessage)

HideMessage == update("hideMessage", sortFunction, filterFunction, NoMessage)

UpdateOps == {"update", "sortFunction", "filterFunction", "showErrorMessage",
              "showLoadingMessage", "hideMessage"}

\* ------------------------------------------------------ opening an edit view
\* tripPoint.onEdit, for the read-only view rendered at place
OnEdit ==
  \E place \in PlacesOfView("TripPoint") :
    LET data == ItemAt(place).data
        edit == [_createTripPointEdit(data) EXCEPT !.element = place]
    IN /\ lastOp' = "onEdit"
       /\ IF CancelThrows
          THEN /\ threw' = TRUE
               /\ UNCHANGED <<tripPointEdit, tripPoints, element, requests>>
          ELSE /\ threw' = FALSE
               /\ tripPointEdit' = <<edit>>
               /\ element' = replaceChild(ElementAfterCancelEdit, place,
                                          TripPointEditItem(data))
               /\ tripPoints' = SpliceOne(tripPoints, IndexOfView(tripPoints, place))
               /\ requests' = RequestsAfterCancelEdit
       /\ UNCHANGED <<tripPointsData, sortFunction, filterFunction, message>>

Open(id) ==
    LET found == FindById(tripPoints, id)
        tripPoint == tripPoints[found]
        edit == _createTripPointEdit(tripPoint.data)
    IN /\ lastOp' = "openTripPointInEditMode"
       /\ IF found = 0
          THEN /\ threw' = FALSE
               /\ UNCHANGED <<tripPointEdit, tripPoints, element, requests>>
          ELSE IF CancelThrows
          THEN /\ threw' = TRUE
               /\ UNCHANGED <<tripPointEdit, tripPoints, element, requests>>
          ELSE IF ~Attached(tripPoint.element)
          THEN \* the new edit view is assigned, then tripPoint.element.parentElement fails
               /\ threw' = TRUE
               /\ tripPointEdit' = <<edit>>
               /\ element' = ElementAfterCancelEdit
               /\ requests' = RequestsAfterCancelEdit
               /\ UNCHANGED tripPoints
          ELSE /\ threw' = FALSE
               /\ tripPointEdit' = <<[edit EXCEPT !.element = tripPoint.element]>>
               /\ element' = replaceChild(ElementAfterCancelEdit, tripPoint.element,
                                          TripPointEditItem(tripPoint.data))
               /\ tripPoints' = SpliceOne(tripPoints, found - 1)
               /\ requests' = RequestsAfterCancelEdit
       /\ UNCHANGED <<tripPointsData, sortFunction, filterFunction, message>>

OpenTripPointInEditMode == \E id \in Ids : Open(id)

\* ------------------------------------------------- events of the edit view
\* the user can act on the edit view: it is rendered and not blocked
Editable ==
  /\ tripPointEdit # <<>>
  /\ Attached(tripPointEdit[1].element)
  /\ tripPointEdit[1].blocked = "none"

OnCancel ==
  /\ Editable
  /\ element' = onCancelElement(element, tripPointEdit[1])
  /\ tripPointEdit' = <<>>
  /\ requests' = Discard(requests)
  /\ lastOp' = "onCancel"
  /\ threw' = FALSE
  /\ UNCHANGED <<tripPointsData, sortFunction, filterFunction, message, tripPoints>>

OnSubmit ==
  /\ Editable
  /\ Cardinality(requests) < MaxRequests
  /\ requests' = requests \cup
         {[kind |-> "update", view |-> "current", data |-> tripPointEdit[1].data]}
  /\ tripPointEdit' = <<savingBlock(tripPointEdit[1])>>
  /\ lastOp' = "onSubmit"
  /\ threw' = FALSE
  /\ UNCHANGED <<tripPointsData, sortFunction, filterFunction, message, tripPoints, element>>

OnDelete ==
  /\ Editable
  /\ Cardinality(requests) < MaxRequests
  /\ requests' = requests \cup
       {[kind |-> "delete", view |-> "current", data |-> tripPointEdit[1].data]}
  /\ tripPointEdit' = <<deletingBlock(tripPointEdit[1])>>
  /\ lastOp' = "onDelete"
  /\ threw' = FALSE
  /\ UNCHANGED <<tripPointsData, sortFunction, filterFunction, message, tripPoints, element>>

\* --------------------------------------------------------- network results
\* a catch handler that acts on this._tripPointEdit, whatever edit view sent the request
ActsOnHandle(request) == tripPointEdit # <<>>

\* the catch handlers act on the tripPointEdit of their closure, the view that sent the
\* request: the list's edit session is touched only while it still is that view
ActsOnSession(request) == request.view = "current"

\* the promise of a request rejects: its catch handler acts on the edit view that sent it
Rejected(request) ==
  /\ request \in requests
  /\ requests' = requests \ {request}
  /\ tripPointEdit' =
       IF ActsOnSession(request)
       THEN <<IF request.kind = "update" THEN onSubmitRejected(tripPointEdit[1])
              ELSE onDeleteRejected(tripPointEdit[1])>>
       ELSE tripPointEdit
  /\ lastOp' = IF request.kind = "update" THEN "updateRejected" ELSE "deleteRejected"
  /\ threw' = FALSE
  /\ UNCHANGED <<tripPointsData, sortFunction, filterFunction, message, tripPoints, element>>

Reject == \E request \in requests : Rejected(request)

\* a then handler that unblocks the edit view once the request has succeeded
onResolvedUnblocking(edit) == unblock(edit)

\* the promise is only given a catch handler: a success leaves the edit view as it is
onResolved(edit) == edit

\* the promise resolves: the list has no then handler and changes nothing
Resolve ==
  \E request \in requests :
    /\ requests' = requests \ {request}
    /\ tripPointEdit' = IF request.view = "current"
                        THEN <<onResolved(tripPointEdit[1])>>
                        ELSE tripPointEdit
    /\ lastOp' = "resolved"
    /\ threw' = FALSE
    /\ UNCHANGED <<tripPointsData, sortFunction, filterFunction, message,
                   tripPoints, element>>

\* the data source finishes loading: getTripPoints() stops returning null.  The
\* record set of a behaviour is fixed from then on; record k of the array has id k
LoadFrom(dates, maxLen) ==
  /\ tripPointsData = <<>>
  /\ \E array \in UNION {[1..n -> [id : Ids, dateFrom : dates]] : n \in 0..maxLen} :
       /\ \A k \in 1..Len(array) : array[k].id = k
       /\ tripPointsData' = <<array>>
  /\ lastOp' = "load"
  /\ threw' = FALSE
  /\ UNCHANGED <<sortFunction, filterFunction, message, tripPointEdit, tripPoints,
                 element, requests>>

Load == LoadFrom(Dates, MaxPoints)

LoadForEdit == LoadFrom(EditDates, MaxEditPoints)

\* ------------------------------------------------------------ specification
Init ==
  /\ tripPointsData = <<>>
  /\ sortFunction = "byDate"
  /\ filterFunction = NoFn
  /\ tripPointEdit = <<>>
  /\ tripPoints = <<>>
  /\ message = NoMessage
  /\ element = <<>>
  /\ requests = {}
  /\ lastOp = "constructor"
  /\ threw = FALSE

\* the list with its edit session and its requests; the status message, which only
\* adds a node in front of the days, is driven in SpecRender
Next ==
  \/ LoadForEdit
  \/ Update
  \/ SetSortFunction
  \/ SetFilterFunction
  \/ OnEdit
  \/ OpenTripPointInEditMode
  \/ OnCancel
  \/ OnSubmit
  \/ OnDelete
  \/ Reject
  \/ Resolve

Spec == Init /\ [][Next]_vars

\* the rendering interface alone, over every record set within the bounds
NextRender ==
  \/ Load
  \/ Update
  \/ SetSortFunction
  \/ SetFilterFunction
  \/ ShowErrorMessage
  \/ ShowLoadingMessage
  \/ HideMessage

SpecRender == Init /\ [][NextRender]_vars

\* ------------------------------------------------------- reading the state
\* what getDisplayedPoints() returns in the current state
Displayed == getDisplayedPoints(tripPointsData, filterFunction, sortFunction)

\* the records of the data source
AllPoints == _getData(tripPointsData)

Range(seq) == {seq[k] : k \in 1..Len(seq)}

Count(seq, x) == Cardinality({k \in 1..Len(seq) : seq[k] = x})

IsDay(node) == node.tag = "day"
IsMessage(node) == node.tag = "p"

\* the day sections and the message nodes of the container, in document order
DayNodes(children) == SelectSeq(children, IsDay)
MessageNodesOf(children) == SelectSeq(children, IsMessage)

\* the records a day section shows, in document order, whatever view shows them
RecordsOf(node) == [j \in 1..Len(node.items) |-> node.items[j].data]

\* the calendar days of a sequence of records, in encountered order, each once
RECURSIVE DaysInOrder(_, _, _)
DaysInOrder(points, k, days) ==
  IF k > Len(points) THEN days
  ELSE DaysInOrder(points, k + 1,
                   IF DayOf(points[k].dateFrom) \in Range(days) THEN days
                   ELSE Append(days, DayOf(points[k].dateFrom)))

SortedBy(fn, points) ==
  \A i, j \in 1..Len(points) : i < j => Compare(fn, points[i], points[j]) <= 0

AfterUpdate == lastOp \in UpdateOps

\* the place of the rendered read-only view of a record, if it has one
ShownReadOnly(id) ==
  \E place \in PlacesOfView("TripPoint") : ItemAt(place).data.id = id

EditOpen == tripPointEdit # <<>> /\ Attached(tripPointEdit[1].element)

\* ------------------------------------------------------------------- claims

\* C1: at most one record is shown by an edit view, and it is the list's current
\* edit session; an edit request that replaces an open edit session first puts the
\* record of that session back into a read-only view at the same place.
C1_OneEditState ==
  LET edits == PlacesOfView("TripPointEdit")
  IN /\ Cardinality(edits) <= 1
     /\ \A place \in edits :
          /\ tripPointEdit # <<>>
          /\ tripPointEdit[1].element = place
          /\ ItemAt(place).data = tripPointEdit[1].data

C1_EditStep ==
  (/\ lastOp' \in {"onEdit", "openTripPointInEditMode"}
   /\ EditOpen
   /\ tripPointEdit' # tripPointEdit) =>
    LET old == tripPointEdit[1]
    IN /\ element'[old.element[1]].items[old.element[2]] = TripPointItem(old.data)
       /\ tripPointEdit' # <<>>
       /\ tripPointEdit'[1].element # old.element

C1_OneEdit == []C1_OneEditState /\ [][C1_EditStep]_vars

\* an edit request has replaced a session that was waiting for its save result: the
\* request of that session is still in flight, its record is shown read-only again
C1_Witness ==
  /\ lastOp = "onEdit"
  /\ EditOpen
  /\ \E request \in requests :
       /\ request.view = "discarded"
       /\ request.data.id # tripPointEdit[1].data.id
       /\ ShownReadOnly(request.data.id)
  /\ Len(tripPoints) = 0

\* C2 as stated: whenever an updateTripPoint request fails, the edit view that sent it
\* is still the open edit session, unblocked, shaken and marked unsaved, whatever
\* happened between the submit and the failure.
C2_StillOpenAfterFailure ==
  lastOp = "updateRejected" =>
    /\ EditOpen
    /\ ItemAt(tripPointEdit[1].element) = TripPointEditItem(tripPointEdit[1].data)
    /\ tripPointEdit[1].blocked = "none"
    /\ tripPointEdit[1].unsaved
    /\ tripPointEdit[1].shaken

\* C2 amended: when an updateTripPoint request fails while the edit view that sent it
\* is still the list's edit session, that view stays open at its place, unblocked,
\* shaken and marked unsaved.
C2_FailureOfCurrentSave ==
  [][\A request \in requests :
       (/\ request.kind = "update"
        /\ request.view = "current"
        /\ lastOp' = "updateRejected"
        /\ request \notin requests') =>
         /\ tripPointEdit' # <<>>
         /\ tripPointEdit'[1].data = tripPointEdit[1].data
         /\ tripPointEdit'[1].element = tripPointEdit[1].element
         /\ Attached(tripPointEdit'[1].element)
         /\ element' = element
         /\ ItemAt(tripPointEdit[1].element) = TripPointEditItem(tripPointEdit[1].data)
         /\ tripPointEdit[1].blocked = "saving"
         /\ tripPointEdit'[1].blocked = "none"
         /\ tripPointEdit'[1].unsaved
         /\ tripPointEdit'[1].shaken]_vars

C2_Witness ==
  /\ lastOp = "updateRejected"
  /\ EditOpen
  /\ tripPointEdit[1].blocked = "none"
  /\ tripPointEdit[1].unsaved
  /\ tripPointEdit[1].shaken
  /\ requests = {}

\* C3: for a displayed sequence sorted by dateFrom, update() renders as many day
\* sections as the displayed records have distinct calendar days, in encountered
\* order, and each section holds exactly the displayed records of its day, in their
\* sorted order.
C3_DaySections ==
  (AfterUpdate /\ sortFunction = "byDate") =>
    LET days == DayNodes(element)
        expected == DaysInOrder(Displayed, 1, <<>>)
    IN /\ Len(days) = Len(expected)
       /\ \A i \in 1..Len(days) :
            /\ days[i].title = expected[i]
            /\ RecordsOf(days[i]) =
                 SelectSeq(Displayed, LAMBDA point : DayOf(point.dateFrom) = expected[i])

\* C4: getDisplayedPoints() returns exactly the records of the data source that pass
\* the filter (all of them without a filter, none when the data source returns
\* null), each once, ordered by the sort comparator (ascending dateFrom by default);
\* the data source keeps the same records, and its array is reordered at most, and
\* only without a filter.
C4_DisplayedPoints ==
  LET source == SourceAfterDisplay(tripPointsData, filterFunction, sortFunction)
  IN /\ \A point \in Range(AllPoints) :
          Count(Displayed, point) =
            IF filterFunction = NoFn \/ Passes(filterFunction, point)
            THEN Count(AllPoints, point) ELSE 0
     /\ Range(Displayed) \subseteq Range(AllPoints)
     /\ sortFunction # NoFn => SortedBy(sortFunction, Displayed)
     /\ sortFunction = "byDate" =>
          \A i, j \in 1..Len(Displayed) :
            i < j => Displayed[i].dateFrom <= Displayed[j].dateFrom
     /\ sortFunction = NoFn =>
          Displayed = SelectSeq(AllPoints,
            LAMBDA point : filterFunction = NoFn \/ Passes(filterFunction, point))
     /\ tripPointsData = <<>> => Displayed = <<>> /\ source = <<>>
     /\ \A point \in Range(AllPoints) :
          Count(_getData(source), point) = Count(AllPoints, point)
     /\ Len(_getData(source)) = Len(AllPoints)
     /\ filterFunction # NoFn => source = tripPointsData
     /\ filterFunction = NoFn => _getData(source) = Displayed

\* a filter that drops a record and a sort that reorders the rest have been rendered
C4_Witness ==
  /\ AfterUpdate
  /\ ~threw
  /\ filterFunction = "future"
  /\ sortFunction = "byIdDesc"
  /\ Len(AllPoints) = 3
  /\ Len(Displayed) = 2
  /\ Displayed # _filterPoints(filterFunction, AllPoints)
  /\ \E i \in 1..Len(element) : RecordsOf(element[i]) = Displayed

\* C5: the container holds a message node exactly when the status message is not
\* empty, at most one, with the message as its text and before every day section; and
\* changing the message right after a rendering leaves the day sections as they were
\* (showLoadingMessage() then hideMessage() ends with no message node and the normal
\* list).
C5_MessageState ==
  LET nodes == MessageNodesOf(element)
  IN /\ (Len(nodes) > 0) <=> (message # NoMessage)
     /\ Len(nodes) <= 1
     /\ Len(nodes) = 1 =>
          /\ IsMessage(element[1])
          /\ element[1].text = message
          /\ ~element[1].hidden
     /\ \A i \in 1..Len(element) : IsDay(element[i]) \/ IsMessage(element[i])

C5_MessageStep ==
  (AfterUpdate /\ lastOp' \in {"showErrorMessage", "showLoadingMessage", "hideMessage"}) =>
    /\ DayNodes(element') = DayNodes(element)
    /\ lastOp' = "hideMessage" => element' = DayNodes(element)

C5_Message == []C5_MessageState /\ [][C5_MessageStep]_vars

\* hideMessage() has run on a list that shows records: no message node, the days only
C5_Witness ==
  /\ lastOp = "hideMessage"
  /\ message = NoMessage
  /\ MessageNodesOf(element) = <<>>
  /\ Len(element) = 2
  /\ Len(tripPoints) > Len(Displayed)

\* C6: update() run again with the data source, filter, sort function and message
\* unchanged leaves the rendered output (message node, day sections with their
\* numbers, records in each section) and the edit session (none) as the first run
\* left them.
C6_Idempotent ==
  [][(AfterUpdate /\ lastOp' = "update") =>
       /\ element' = element
       /\ tripPointEdit' = tripPointEdit
       /\ tripPointEdit' = <<>>]_vars

\* update() has run twice in a row on a list of two days with a message
C6_Witness ==
  /\ lastOp = "update"
  /\ ~threw
  /\ Len(Displayed) = 3
  /\ Len(tripPoints) = 2 * Len(Displayed)
  /\ Len(element) = 3
  /\ message # NoMessage

\* C7 as stated: whenever a deleteTripPoint request fails, the edit view that sent it is
\* still the open edit session of its record, unblocked and marked unsaved.
C7_StillOpenAfterFailure ==
  lastOp = "deleteRejected" =>
    /\ EditOpen
    /\ ItemAt(tripPointEdit[1].element) = TripPointEditItem(tripPointEdit[1].data)
    /\ tripPointEdit[1].blocked = "none"
    /\ tripPointEdit[1].unsaved

\* C7 amended: when a deleteTripPoint request fails while the edit view that sent it is
\* still the list's edit session, that view stays open at its place for the same
\* record, unblocked and marked unsaved, and it is not shaken.
C7_FailureOfCurrentDelete ==
  [][\A request \in requests :
       (/\ request.kind = "delete"
        /\ request.view = "current"
        /\ lastOp' = "deleteRejected"
        /\ request \notin requests') =>
         /\ tripPointEdit' # <<>>
         /\ tripPointEdit'[1].data = tripPointEdit[1].data
         /\ tripPointEdit'[1].data = request.data
         /\ tripPointEdit'[1].element = tripPointEdit[1].element
         /\ Attached(tripPointEdit'[1].element)
         /\ element' = element
         /\ ItemAt(tripPointEdit[1].element) = TripPointEditItem(tripPointEdit[1].data)
         /\ tripPointEdit[1].blocked = "deleting"
         /\ tripPointEdit'[1].blocked = "none"
         /\ tripPointEdit'[1].unsaved
         /\ tripPointEdit'[1].shaken = tripPointEdit[1].shaken]_vars

C7_Witness ==
  /\ lastOp = "deleteRejected"
  /\ EditOpen
  /\ tripPointEdit[1].blocked = "none"
  /\ tripPointEdit[1].unsaved
  /\ ~tripPointEdit[1].shaken
  /\ requests = {}

\* C8: openTripPointInEditMode({id}) for a record shown by a read-only view, when it
\* returns, has put that record into edit mode: the edit session is for that record,
\* its edit view is rendered where the read-only view was, and no read-only view of
\* the record is left rendered or tracked.
C8_OpenShownRecord ==
  [][\A id \in Ids :
       (Open(id) /\ ~threw' /\ ShownReadOnly(id)) =>
         /\ tripPointEdit' # <<>>
         /\ tripPointEdit'[1].data.id = id
         /\ Attached(tripPointEdit'[1].element)
         /\ element'[tripPointEdit'[1].element[1]].items[tripPointEdit'[1].element[2]]
              = TripPointEditItem(tripPointEdit'[1].data)
         /\ element[tripPointEdit'[1].element[1]].items[tripPointEdit'[1].element[2]]
              = TripPointItem(tripPointEdit'[1].data)
         /\ \A k \in 1..Len(tripPoints') :
              tripPoints'[k].data.id = id => ~Attached(tripPoints'[k].element)]_vars

\* C9: right after update() the tracked list holds exactly one handle per displayed
\* record, in displayed order, each of them rendered in the list (stated for record
\* sets with no record on the day of the initial previous date, on which update()
\* always runs to its end).
C9_TrackedAfterUpdate ==
  (AfterUpdate /\ \A point \in Range(AllPoints) : NewDay(InitialPrevDate, point.dateFrom)) =>
    /\ Len(tripPoints) = Len(Displayed)
    /\ \A k \in 1..Len(tripPoints) :
         /\ k <= Len(Displayed) => tripPoints[k].data = Displayed[k]
         /\ Attached(tripPoints[k].element)

\* C10: every update(), called directly or through a setter, ends with no edit
\* session: the handle is null, no edit view is rendered, and every displayed record
\* is shown by a read-only view.
C10_NoEditAfterUpdate ==
  AfterUpdate =>
    /\ tripPointEdit = <<>>
    /\ PlacesOfView("TripPointEdit") = {}
    /\ \A point \in Range(Displayed) :
         \E place \in PlacesOfView("TripPoint") : ItemAt(place).data = point

\* the number of records a sequence of container children shows
RECURSIVE ItemCount(_, _)
ItemCount(children, i) ==
  IF i > Len(children) THEN 0
  ELSE Len(children[i].items) + ItemCount(children, i + 1)

\* C11: in update() the first displayed record always opens a day section, whatever
\* its dateFrom (also on the calendar day of the initial previous date 0), so update()
\* runs to its end, every displayed record is rendered inside a day section, and a
\* later section is opened exactly when the day difference to the previous record is
\* not zero.
C11_FirstRecordOpensDay ==
  (AfterUpdate /\ Displayed # <<>>) =>
    /\ ~threw
    /\ Len(DayNodes(element)) =
         1 + Cardinality({k \in 2..Len(Displayed) :
                            calcDaysDiff(Displayed[k - 1].dateFrom, Displayed[k].dateFrom) # 0})
    /\ ItemCount(element, 1) = Len(Displayed)
    /\ \A k \in 1..Len(tripPoints) :
         tripPoints[k].element # NoElement => Attached(tripPoints[k].element)

\* the earliest dateFrom over the records of the data source
EarliestDate == CHOOSE date \in {point.dateFrom : point \in Range(AllPoints)} :
                  \A point \in Range(AllPoints) : date <= point.dateFrom

\* the day numbers of the sections that show a record
DayNumbersOf(children, point) ==
  {children[i].number : i \in {n \in 1..Len(children) :
                                 IsDay(children[n]) /\ point \in Range(RecordsOf(children[n]))}}

\* C13: the day number of a day section is the calendar-day difference between the
\* section's date and the earliest dateFrom over all records of the data source, plus
\* 1; it is at least 1, the numbers strictly increase from section to section when
\* the displayed sequence is sorted by dateFrom, and a record keeps its day number
\* when the filter changes and still displays it.
C13_DayNumberState ==
  LET days == DayNodes(element)
  IN \A i \in 1..Len(days) :
       /\ days[i].number = (days[i].title - DayOf(EarliestDate)) + 1
       /\ days[i].number >= 1
       /\ \A point \in Range(RecordsOf(days[i])) :
            /\ DayOf(point.dateFrom) = days[i].title
            /\ days[i].number = calcDaysDiff(EarliestDate, point.dateFrom) + 1
       /\ (sortFunction = "byDate" /\ i > 1) => days[i - 1].number < days[i].number

C13_FilterStep ==
  lastOp' = "filterFunction" =>
    \A point \in Range(AllPoints) :
      (DayNumbersOf(element, point) # {} /\ DayNumbersOf(element', point) # {}) =>
        DayNumbersOf(element', point) = DayNumbersOf(element, point)

C13_DayNumbers == []C13_DayNumberState /\ [][C13_FilterStep]_vars

\* a filter hides the earliest record: the first section shown is day 2 of the trip
C13_Witness ==
  /\ lastOp = "filterFunction"
  /\ ~threw
  /\ filterFunction = "future"
  /\ sortFunction = "byDate"
  /\ Len(AllPoints) = 3
  /\ Len(Displayed) = 2
  /\ Len(DayNodes(element)) = 2
  /\ DayNodes(element)[1].number = 2
  /\ DayNodes(element)[2].number = 3

\* ----------------------------------------------- the edit session with messages
\* the edit session, its requests and the status message with one filter setter
NextSession ==
  \/ LoadForEdit
  \/ Update
  \/ SetFilterFunction
  \/ ShowLoadingMessage
  \/ HideMessage
  \/ OnEdit
  \/ OnCancel
  \/ OnSubmit
  \/ OnDelete
  \/ Reject
  \/ Resolve

SpecSession == Init /\ [][NextSession]_vars

\* C12: cancelling the edit session puts a fresh read-only view of the session's
\* original record where the edit view was and clears the edit-session handle; no
\* request is sent, and the data source, the filter, the sort function, the message,
\* the tracked views and every other node of the container stay as they were.
C12_CancelFrame ==
  [][lastOp' = "onCancel" =>
       LET old == tripPointEdit[1]
       IN /\ tripPointEdit' = <<>>
          /\ old.data \in Range(AllPoints)
          /\ ItemAt(old.element) = TripPointEditItem(old.data)
          /\ Len(element') = Len(element)
          /\ \A i \in 1..Len(element) :
               /\ [element'[i] EXCEPT !.items = <<>>] = [element[i] EXCEPT !.items = <<>>]
               /\ Len(element'[i].items) = Len(element[i].items)
               /\ \A j \in 1..Len(element[i].items) :
                    element'[i].items[j] =
                      IF <<i, j>> = old.element THEN TripPointItem(old.data)
                      ELSE element[i].items[j]
          /\ requests' = requests
          /\ UNCHANGED <<tripPointsData, sortFunction, filterFunction, message,
                         tripPoints>>]_vars

\* a session opened over another one that was saving has been cancelled, under a
\* message and a filter: both records are read-only again, the request is in flight
C12_Witness ==
  /\ lastOp = "onCancel"
  /\ tripPointEdit = <<>>
  /\ message = LoadingMessage
  /\ filterFunction = "future"
  /\ Len(Displayed) = 2
  /\ \A point \in Range(Displayed) : ShownReadOnly(point.id)
  /\ PlacesOfView("TripPointEdit") = {}
  /\ requests # {}

\* the edit session is blocked and its request has been settled by a success
ResolvedBlocked ==
  /\ tripPointEdit # <<>>
  /\ tripPointEdit[1].blocked # "none"
  /\ \A request \in requests : request.view # "current"

\* submit and delete block the edit view and send one request for its record
C14_BlockAndSend ==
  lastOp' \in {"onSubmit", "onDelete"} =>
    /\ tripPointEdit[1].blocked = "none"
    /\ tripPointEdit' =
         <<[tripPointEdit[1] EXCEPT
              !.blocked = IF lastOp' = "onSubmit" THEN "saving" ELSE "deleting"]>>
    /\ \E request \in requests' \ requests :
         /\ requests' = requests \cup {request}
         /\ request.kind = (IF lastOp' = "onSubmit" THEN "update" ELSE "delete")
         /\ request.data = tripPointEdit[1].data
         /\ request.view = "current"
    /\ UNCHANGED <<tripPointsData, sortFunction, filterFunction, message, tripPoints,
                   element>>

\* a success changes nothing of the list: no re-rendering, no unblock, same session
C14_SuccessStep ==
  lastOp' = "resolved" =>
    UNCHANGED <<tripPointsData, sortFunction, filterFunction, message, tripPointEdit,
                tripPoints, element>>

Settle == Reject \/ Resolve

\* the data source announces the change of a request that succeeded, and the
\* announcement runs update()
ChangeNotification == lastOp = "resolved" /\ Update

\* the session specification with requests that settle and changes that are announced
SpecLive ==
  /\ Init
  /\ [][NextSession]_vars
  /\ WF_vars(Settle)
  /\ WF_vars(ChangeNotification)

Blocked == tripPointEdit # <<>> /\ tripPointEdit[1].blocked # "none"

\* update() can still be taken within the bound on the tracked list
RoomForUpdate == Len(tripPoints) + Len(Displayed) <= MaxTracked

\* C15: an edit session that is blocked (saving or deleting) eventually stops being a
\* blocked current session: its request rejects and the view is unblocked, or the
\* request resolves and the update() of the change notification ends the session
\* (stated while the tracked list leaves room for that update()).
C15_EventuallyUnblocked ==
  (Blocked /\ RoomForUpdate) ~> ~Blocked

\* the save request has succeeded and the session waits, blocked, for the update()
C15_Witness ==
  /\ lastOp = "resolved"
  /\ ResolvedBlocked
  /\ tripPointEdit[1].blocked = "saving"
  /\ RoomForUpdate
  /\ message = LoadingMessage

\* a record has a rendered read-only view whose handle is in the tracked list
TrackedReadOnly(point) ==
  \E k \in 1..Len(tripPoints) :
    /\ tripPoints[k].data = point
    /\ Attached(tripPoints[k].element)
    /\ tripPoints[k].element \in PlacesOfView("TripPoint")
    /\ ItemAt(tripPoints[k].element) = TripPointItem(point)

\* C17: every displayed record is the record of the current edit session or has a
\* rendered read-only view whose handle is tracked; stated for the states the claim
\* singles out, right after an edit session has been cancelled.
C17_CancelledViewTracked ==
  lastOp = "onCancel" =>
    \A point \in Range(Displayed) :
      \/ tripPointEdit # <<>> /\ tripPointEdit[1].data = point
      \/ TrackedReadOnly(point)

MaxLocalPoints == 2   \* records of the local array
MaxLocalTracked == 4  \* update() is not taken once the local _tripPoints would outgrow this

\* the epoch day and the day after it
LocalDates == {0, DayLen}
LocalTimes == {0, 1}
LocalPrices == {0, 1}
LocalPoints == [id : 1..MaxLocalPoints, date : LocalDates, startTime : LocalTimes,
                price : LocalPrices]

\* an element that still has its parent, in a tree that was removed from the container
Orphaned == <<0, 1>>

\* the element is a node inside the container
InList(place) == place # NoElement /\ place # Detached /\ place # Orphaned

\* stands for Infinity: above every date of the model
Infinity == (2 * DayLen) + MaxDate + 1

RECURSIVE ReduceMinDate(_, _, _)
ReduceMinDate(array, k, min) ==
  IF k > Len(array) THEN min
  ELSE ReduceMinDate(array, k + 1, IF array[k].date < min THEN array[k].date ELSE min)

_getTripStartDate(array) == ReduceMinDate(array, 1, Infinity)

CompareLocal(fn, point1, point2) ==
  IF fn = "byDate" THEN compareDate(point1.date, point2.date)
  ELSE point2.id - point1.id

PassesLocal(fn, point) == point.date >= DayLen

RECURSIVE InsertSortedLocal(_, _, _)
InsertSortedLocal(fn, sorted, point) ==
  IF sorted = <<>> THEN <<point>>
  ELSE IF CompareLocal(fn, sorted[Len(sorted)], point) > 0
       THEN Append(InsertSortedLocal(fn, SubSeq(sorted, 1, Len(sorted) - 1), point),
                   sorted[Len(sorted)])
       ELSE Append(sorted, point)

RECURSIVE SortFromLocal(_, _, _, _)
SortFromLocal(fn, array, k, sorted) ==
  IF k > Len(array) THEN sorted
  ELSE SortFromLocal(fn, array, k + 1, InsertSortedLocal(fn, sorted, array[k]))

filterPoints(fn, array) ==
  IF fn # NoFn THEN SelectSeq(array, LAMBDA point : PassesLocal(fn, point)) ELSE array

sortPoints(fn, array) ==
  IF fn # NoFn THEN SortFromLocal(fn, array, 1, <<>>) ELSE array

getDisplayedPointsLocal(array, filterFn, sortFn) ==
  sortPoints(sortFn, filterPoints(filterFn, array))

\* sort() works in place: without a filter it reorders this._tripPointsData itself
ArrayAfterDisplayLocal(array, filterFn, sortFn) ==
  IF filterFn = NoFn THEN sortPoints(sortFn, array) ELSE array

RECURSIVE RenderDaysLocal(_, _, _, _, _)
RenderDaysLocal(displayed, k, prevTripPointDate, tripStartDate, days) ==
  IF k > Len(displayed) THEN days
  ELSE LET date == displayed[k].date
           opened == IF NewDay(prevTripPointDate, date)
                     THEN Append(days, _createTripDayElement(date, tripStartDate))
                     ELSE days
       IN RenderDaysLocal(displayed, k + 1, date, tripStartDate,
                          _addTripPointElementToDayElement(opened, TripPointItem(displayed[k])))

\* new TripPointEdit(data): not rendered yet
_createTripPointEditLocal(data) == [data |-> data, element |-> NoElement]

\* what update() leaves of the array, of the container and of the views it pushes, and
\* whether it ends with an exception (the first append on a null dayElement)
updateResult(array, filterFn, sortFn) ==
  LET displayed == getDisplayedPointsLocal(array, filterFn, sortFn)
      source == ArrayAfterDisplayLocal(array, filterFn, sortFn)
  IN IF displayed = <<>>
     THEN [source |-> source, element |-> <<>>, pushed |-> <<>>, threw |-> FALSE]
     ELSE IF ~NewDay(InitialPrevDate, displayed[1].date)
     THEN [source |-> source, element |-> <<>>,
           pushed |-> <<_createTripPoint(displayed[1], Detached)>>, threw |-> TRUE]
     ELSE LET days == RenderDaysLocal(displayed, 1, InitialPrevDate,
                                      _getTripStartDate(source), <<>>)
              places == Places(days, 1, 0)
          IN [source |-> source, element |-> days,
              pushed |-> [k \in 1..Len(displayed) |->
                            _createTripPoint(displayed[k], places[k])],
              threw |-> FALSE]

\* update() does not touch this._tripPointEdit: removeChilds only takes the edit
\* view's day section out of the container
EditKeptByUpdate(edit) ==
  IF edit # <<>> /\ InList(edit[1].element)
  THEN <<[edit[1] EXCEPT !.element = Orphaned]>>
  ELSE edit

updateLocal(op, sortFn, filterFn) ==
  LET result == updateResult(tripPointsData[1], filterFn, sortFn)
  IN /\ Len(tripPoints) + Len(result.pushed) <= MaxLocalTracked
     /\ sortFunction' = sortFn
     /\ filterFunction' = filterFn
     /\ tripPointsData' = <<result.source>>
     /\ element' = result.element
     /\ tripPoints' = UnrenderTripPoints(tripPoints) \o result.pushed
     /\ tripPointEdit' = EditKeptByUpdate(tripPointEdit)
     /\ threw' = result.threw
     /\ lastOp' = op
     /\ UNCHANGED <<message, requests>>

UpdateLocal == updateLocal("update", sortFunction, filterFunction)

SetSortFunctionLocal == \E fn \in SortFns : updateLocal("sortFunction", fn, filterFunction)

SetFilterFunctionLocal == \E fn \in FilterFns : updateLocal("filterFunction", sortFunction, fn)

\* tripPoint.unrender() of the view rendered at place, where it is tracked
UnrenderAt(handles, place) ==
  [k \in 1..Len(handles) |->
     IF handles[k].element = place THEN unrender(handles[k]) ELSE handles[k]]

\* Array.prototype.indexOf of a record: 0-based, -1 when absent
IndexOfPoint(array, data) ==
  IF \E k \in 1..Len(array) : array[k] = data
  THEN (CHOOSE k \in 1..Len(array) : array[k] = data) - 1
  ELSE -1

\* tripPoint.onEdit of the local version, for the read-only view rendered at place
OnEditLocal ==
  \E place \in PlacesOfView("TripPoint") :
    LET data == ItemAt(place).data
        cancelled == IF tripPointEdit # <<>> /\ InList(tripPointEdit[1].element)
                     THEN onCancelElement(element, tripPointEdit[1])
                     ELSE element
    IN /\ lastOp' = "onEdit"
       /\ IF tripPointEdit # <<>> /\ tripPointEdit[1].element = NoElement
          THEN \* cancelEdit() of an unrendered edit view: element is null
               /\ threw' = TRUE
               /\ UNCHANGED <<tripPointEdit, tripPoints, element>>
          ELSE /\ threw' = FALSE
               /\ tripPointEdit' = <<[_createTripPointEditLocal(data) EXCEPT !.element = place]>>
               /\ element' = replaceChild(cancelled, place, TripPointEditItem(data))
               /\ tripPoints' = UnrenderAt(tripPoints, place)
       /\ UNCHANGED <<tripPointsData, sortFunction, filterFunction, message, requests>>

\* the user can act on the edit view: it is rendered in the list
EditableLocal == tripPointEdit # <<>> /\ InList(tripPointEdit[1].element)

OnCancelLocal ==
  /\ EditableLocal
  /\ element' = onCancelElement(element, tripPointEdit[1])
  /\ tripPointEdit' = <<>>
  /\ lastOp' = "onCancel"
  /\ threw' = FALSE
  /\ UNCHANGED <<tripPointsData, sortFunction, filterFunction, message, tripPoints,
                 requests>>

\* the handler runs update() and, when update() returns, drops the edit session
UpdateFromHandler(op, array, edit) ==
  LET result == updateResult(array, filterFunction, sortFunction)
  IN /\ Len(tripPoints) + Len(result.pushed) <= MaxLocalTracked
     /\ tripPointsData' = <<result.source>>
     /\ element' = result.element
     /\ tripPoints' = UnrenderTripPoints(tripPoints) \o result.pushed
     /\ tripPointEdit' = IF result.threw THEN EditKeptByUpdate(<<edit>>) ELSE <<>>
     /\ threw' = result.threw
     /\ lastOp' = op

\* this._tripPointsData[indexOf(data)] = newData; index -1 sets no element of the array
ReplaceAt(array, index, newData) ==
  IF index >= 0 THEN [array EXCEPT ![index + 1] = newData] ELSE array

OnSubmitLocal ==
  /\ EditableLocal
  /\ \E newData \in LocalPoints :
       LET edit == tripPointEdit[1]
           data == edit.data
           array == ReplaceAt(tripPointsData[1], IndexOfPoint(tripPointsData[1], data), newData)
       IN /\ newData.id = data.id
          /\ IF newData.date # data.date \/ newData.startTime # data.startTime
             THEN UpdateFromHandler("onSubmit", array, edit)
             ELSE /\ tripPointsData' = <<array>>
                  /\ element' = replaceChild(element, edit.element, TripPointItem(newData))
                  /\ tripPointEdit' = <<>>
                  /\ threw' = FALSE
                  /\ lastOp' = "onSubmit"
                  /\ UNCHANGED tripPoints
  /\ UNCHANGED <<sortFunction, filterFunction, message, requests>>

OnDeleteLocal ==
  /\ EditableLocal
  /\ LET edit == tripPointEdit[1]
         array == SpliceOne(tripPointsData[1], IndexOfPoint(tripPointsData[1], edit.data))
     IN UpdateFromHandler("onDelete", array, unrender(edit))
  /\ UNCHANGED <<sortFunction, filterFunction, message, requests>>

\* the constructor fills the array (with mock records); record k of it has id k
InitLocal ==
  /\ \E array \in UNION {[1..n -> LocalPoints] : n \in 0..MaxLocalPoints} :
       /\ \A k \in 1..Len(array) : array[k].id = k
       /\ tripPointsData = <<array>>
  /\ sortFunction = "byDate"
  /\ filterFunction = NoFn
  /\ tripPointEdit = <<>>
  /\ tripPoints = <<>>
  /\ message = NoMessage
  /\ element = <<>>
  /\ requests = {}
  /\ lastOp = "constructor"
  /\ threw = FALSE

NextLocal ==
  \/ UpdateLocal
  \/ SetSortFunctionLocal
  \/ SetFilterFunctionLocal
  \/ OnEditLocal
  \/ OnCancelLocal
  \/ OnSubmitLocal
  \/ OnDeleteLocal

SpecLocal == InitLocal /\ [][NextLocal]_vars

\* the items of the container's children, in document order
RECURSIVE ItemsOf(_, _)
ItemsOf(children, i) ==
  IF i > Len(children) THEN <<>>
  ELSE children[i].items \o ItemsOf(children, i + 1)

\* the container shows exactly these records, in this order, each in a read-only view
ShowsReadOnly(children, displayed) ==
  ItemsOf(children, 1) = [k \in 1..Len(displayed) |-> TripPointItem(displayed[k])]

\* the submit handler of the local version, as the claim describes it
C16_SubmitStep ==
  lastOp' = "onSubmit" =>
    LET data == tripPointEdit[1].data
        array == tripPointsData[1]
    IN \E newData \in LocalPoints :
         /\ newData.id = data.id
         /\ IndexOfPoint(array, data) >= 0
         /\ tripPointsData'[1] = [array EXCEPT ![IndexOfPoint(array, data) + 1] = newData]
         /\ tripPointEdit' = <<>>
         /\ IF newData.date # data.date \/ newData.startTime # data.startTime
            THEN ShowsReadOnly(element', getDisplayedPointsLocal(tripPointsData'[1],
                                          filterFunction, sortFunction))
            ELSE element' = replaceChild(element, tripPointEdit[1].element,
                                         TripPointItem(newData))

\* the delete handler of the local version, as the claim describes it
C16_DeleteStep ==
  lastOp' = "onDelete" =>
    LET data == tripPointEdit[1].data
        array == tripPointsData[1]
    IN /\ tripPointsData'[1] = SelectSeq(array, LAMBDA point : point # data)
       /\ Len(tripPointsData'[1]) = Len(array) - 1
       /\ tripPointEdit' = <<>>

\* C16: in the local-data version, a submit puts the new data at the index of the
\* edited record (length and other records unchanged), a delete removes exactly the
\* edited record, after either handler there is no edit session, and a submit that
\* changes the date or the start time re-renders the list while any other submit only
\* swaps a read-only view of the new data in.
C16_LocalSubmitDelete == [][C16_SubmitStep /\ C16_DeleteStep]_vars

\* C19: in the local-data version the edit-session handle is non-null only while its
\* edit view is rendered inside the list; stated for the states right after an
\* update() (called directly or by the filter or sort setter), where no handle to a
\* removed edit view may remain.
C19_HandleRenderedAfterUpdate ==
  (AfterUpdate /\ tripPointEdit # <<>>) =>
    /\ InList(tripPointEdit[1].element)
    /\ tripPointEdit[1].element \in PlacesOfView("TripPointEdit")
    /\ ItemAt(tripPointEdit[1].element) = TripPointEditItem(tripPointEdit[1].data)

====
